---- MODULE Spec2Model ----
(***************************************************************************)
(* Model of src/index.js: the microphone frequency-bar visualizer.         *)
(*                                                                         *)
(* The script's top level (lines 9-30) has sized the canvas and taken its  *)
(* 2d context; Init is the state right after that.  The remaining steps    *)
(* are the capability check (lines 35-47), the two callbacks handed to     *)
(* navigator.getUserMedia (lines 49-143 and 145-149) and the animation     *)
(* frame callback draw (lines 87-139).                                     *)
(*                                                                         *)
(* Numbers.  The source computes in IEEE doubles; the model computes the   *)
(* same expressions exactly, in fixed point: horizontal lengths in units   *)
(* of 1/XScale pixel and vertical lengths in units of 1/YScale pixel.  The *)
(* scales are chosen so that every division of the source is exact for the *)
(* integer clientWidth values and byte samples the model draws.            *)
(***************************************************************************)
EXTENDS Integers, Sequences, FiniteSets, TLC

(* ------------------------------ bounds --------------------------------- *)

\* Repaint signals delivered in one run of the model.
MaxFrames == 3

\* document.body.clientWidth values (CSS pixels) the page may report.
ClientWidths == {0, 600, 1000}

\* err.name values the media provider may report.
ErrNames == {"NotAllowedError", "NotFoundError", "PermissionDeniedError"}

(* ------------------------- fixed-point scales -------------------------- *)

XScale == 6 * 128
YScale == 2 * 2

(* ---------------------------- constants -------------------------------- *)

CANVAS_HEIGHT == 300
BACKGROUND_COLOR == "rgb(60, 60, 60)"
BAR_OFFSET_FACTOR_x10 == 14
BAR_PADDING == 2
fftSize == 256

\* analyser.frequencyBinCount: half the FFT size.
frequencyBinCount == fftSize \div 2

ERROR_COLOR == "rgb(255, 20, 48)"
ERROR_FONT == "32px serif"
UNSUPPORTED_MSG == "Error: Your browser may not support audio/video capture"

\* The three names under which a browser may expose the capability.
GumNames == {"getUserMedia", "webkitGetUserMedia", "mozGetUserMedia"}
Undefined == "undefined"

(* ------------------------------ state ---------------------------------- *)

VARIABLES
    phase,            \* where the script is: "loaded", "requested", "running", "failed", "unsupported"
    navigator,        \* the capability names present on navigator
    clientWidth,      \* document.body.clientWidth read at line 9
    bodyBackground,   \* document.body.style.backgroundColor (line 18)
    errName,          \* the name of the error the provider delivered (Undefined if none)
    repaintSignals,   \* display refreshes that found a frame callback registered
    ctx,              \* canvasCtx drawing state: [fillStyle, font]
    canvas,           \* what is painted on the canvas bitmap, bottom to top
    calls,            \* the platform calls made by the most recent handler, in order
    frame,            \* the platform calls made by the most recent draw(), in order
    bufferLength,     \* var bufferLength of getUserMediaSuccess (0 before it is set)
    dataArray,        \* the Uint8Array of magnitudes (<< >> before it is allocated)
    allocs,           \* number of Uint8Array allocations
    rafPending,       \* callbacks registered with requestAnimationFrame, not yet run
    rafCalls,         \* requestAnimationFrame calls so far
    framesDrawn,      \* draw() invocations so far
    gumRequests,      \* navigator.getUserMedia calls so far
    displayed,        \* the errorText of every displayError invocation, in order
    setupRuns,        \* getUserMediaSuccess invocations so far
    clearRects        \* clearRect calls made by getUserMediaSuccess so far

envVars == <<phase, navigator, clientWidth, bodyBackground, errName, repaintSignals>>
progVars == <<ctx, canvas, calls, frame, bufferLength, dataArray, allocs, rafPending, rafCalls,
              framesDrawn, gumRequests, displayed, setupRuns, clearRects>>
vars == <<envVars, progVars>>

\* The program-side state as one value, threaded through the handlers.
M == [ctx |-> ctx, canvas |-> canvas, calls |-> calls, frame |-> frame,
      bufferLength |-> bufferLength, dataArray |-> dataArray, allocs |-> allocs, rafPending |-> rafPending,
      rafCalls |-> rafCalls, framesDrawn |-> framesDrawn,
      gumRequests |-> gumRequests, displayed |-> displayed,
      setupRuns |-> setupRuns, clearRects |-> clearRects]

Commit(m) ==
    /\ ctx' = m.ctx
    /\ canvas' = m.canvas
    /\ calls' = m.calls
    /\ frame' = m.frame
    /\ bufferLength' = m.bufferLength
    /\ dataArray' = m.dataArray
    /\ allocs' = m.allocs
    /\ rafPending' = m.rafPending
    /\ rafCalls' = m.rafCalls
    /\ framesDrawn' = m.framesDrawn
    /\ gumRequests' = m.gumRequests
    /\ displayed' = m.displayed
    /\ setupRuns' = m.setupRuns
    /\ clearRects' = m.clearRects

(* --------------------------- geometry ---------------------------------- *)

\* CANVAS_WIDTH = document.body.clientWidth / 1.2, in 1/XScale pixels.
CANVAS_WIDTH == (clientWidth * XScale * 10) \div 12

\* canvas.width = CANVAS_WIDTH: the attribute is an integer, the fraction is dropped.
BitmapWidth == (clientWidth * 10) \div 12

\* barWidth = (CANVAS_WIDTH / bufferLength) * BAR_OFFSET_FACTOR
BarWidth(m) == ((CANVAS_WIDTH \div m.bufferLength) * BAR_OFFSET_FACTOR_x10) \div 10

\* barHeight = dataArray[i] * 1.5, in 1/YScale pixels.
BarHeight(s) == (s * 15 * YScale) \div 10

\* CANVAS_HEIGHT - (barHeight / 2), in 1/YScale pixels.
BarTop(barHeight) == CANVAS_HEIGHT * YScale - barHeight \div 2

\* `rgb(60, 60, ${dataArray[i] + 60})`
BarColor_Clamped(s) ==
    "rgb(60, 60, " \o ToString(IF s + 60 > 255 THEN 255 ELSE s + 60) \o ")"

BarColor(s) == "rgb(60, 60, " \o ToString(s + 60) \o ")"

\* x += barWidth + BAR_PADDING
NextX_NoPadding(x, barWidth) == x + barWidth

NextX(x, barWidth) == x + barWidth + BAR_PADDING * XScale

\* i < bufferLength
LoopCond_OffByOne(i, m) == i < m.bufferLength - 1

LoopCond(i, m) == i < m.bufferLength

(* ----------------------- the drawing surface --------------------------- *)

Call(op, value, args) == [op |-> op, value |-> value, args |-> args]

Log(m, c) == [m EXCEPT !.calls = Append(@, c), !.frame = Append(@, c)]

\* A rectangle <<x, y, w, h>> that contains the whole bitmap.
Covers(r) ==
    /\ r[1] <= 0
    /\ r[2] <= 0
    /\ r[1] + r[3] >= BitmapWidth * XScale
    /\ r[2] + r[4] >= CANVAS_HEIGHT * YScale

Item(kind, style, text, args) ==
    [kind |-> kind, style |-> style, text |-> text, args |-> args]

SetFillStyle(m, style) ==
    Log([m EXCEPT !.ctx.fillStyle = style], Call("fillStyle", style, << >>))

SetFont(m, font) ==
    Log([m EXCEPT !.ctx.font = font], Call("font", font, << >>))

\* fillRect paints nothing when a side is zero; a fill of the whole bitmap
\* leaves nothing else visible.
FillRect(m, r) ==
    LET it == Item("rect", m.ctx.fillStyle, "", r)
        painted == IF r[3] = 0 \/ r[4] = 0 THEN m.canvas
                   ELSE IF Covers(r) THEN <<it>>
                   ELSE Append(m.canvas, it)
    IN Log([m EXCEPT !.canvas = painted], Call("fillRect", "", r))

\* clearRect erases the pixels of the rectangle.
ClearRect(m, r) ==
    LET left == IF r[3] = 0 \/ r[4] = 0 THEN m.canvas
                ELSE IF Covers(r) THEN << >>
                ELSE m.canvas
    IN Log([m EXCEPT !.canvas = left], Call("clearRect", "", r))

\* fillText(text, x, y, maxWidth) draws nothing when maxWidth <= 0.
FillText(m, text, x, y, maxWidth) ==
    LET it == Item("text", m.ctx.fillStyle, text, <<x, y, maxWidth>>)
        painted == IF maxWidth <= 0 THEN m.canvas ELSE Append(m.canvas, it)
    IN Log([m EXCEPT !.canvas = painted], Call("fillText", text, <<x, y, maxWidth>>))

(* --------------------------- displayError ------------------------------ *)

\* function displayError (errorText): args are the actual arguments of the
\* call; the one parameter binds the first of them.
displayError_TextFirst(m, args) ==
    LET errorText == args[1]
        m0 == [m EXCEPT !.displayed = Append(@, errorText)]
        m1 == SetFillStyle(m0, ERROR_COLOR)
        m2 == SetFont(m1, ERROR_FONT)
        m3 == FillText(m2, errorText, 0, (CANVAS_HEIGHT * YScale) \div 2, CANVAS_WIDTH)
    IN ClearRect(m3, <<0, 0, CANVAS_WIDTH, CANVAS_HEIGHT * YScale>>)

displayError(m, args) ==
    LET errorText == args[1]
        m0 == [m EXCEPT !.displayed = Append(@, errorText)]
        m1 == ClearRect(m0, <<0, 0, CANVAS_WIDTH, CANVAS_HEIGHT * YScale>>)
        m2 == SetFillStyle(m1, ERROR_COLOR)
        m3 == SetFont(m2, ERROR_FONT)
    IN FillText(m3, errorText, 0, (CANVAS_HEIGHT * YScale) \div 2, CANVAS_WIDTH)

\* function getUserMediaError (err)
getUserMediaError(m, err) == displayError(m, <<"Error: ", err.name>>)

(* ------------------------------- draw ---------------------------------- *)

\* Magnitude buffers the analyser may deliver: bytes 0..255, one per bin.
Silence == [i \in 1..frequencyBinCount |-> 0]
Loudest == [i \in 1..frequencyBinCount |-> 255]
Sweep == [i \in 1..frequencyBinCount |-> ((i - 1) * 255) \div (frequencyBinCount - 1)]
RampOdd == [i \in 1..frequencyBinCount |-> 255 - 2 * (i - 1)]
Samples == {Silence, Loudest, Sweep, RampOdd}

\* var drawVisual = requestAnimationFrame(draw)
ScheduleNext_Twice(m) ==
    Log([m EXCEPT !.rafPending = @ + 2, !.rafCalls = @ + 2],
        Call("requestAnimationFrame", "draw", << >>))

ScheduleNext(m) ==
    Log([m EXCEPT !.rafPending = @ + 1, !.rafCalls = @ + 1],
        Call("requestAnimationFrame", "draw", << >>))

\* analyser.getByteFrequencyData(dataArray): overwrites the buffer in place;
\* the buffer keeps its length.
Populate_Realloc(m, sample) ==
    Log([m EXCEPT !.dataArray = sample, !.allocs = @ + 1],
        Call("getByteFrequencyData", "dataArray", << >>))

Populate(m, sample) ==
    Log([m EXCEPT !.dataArray = [i \in DOMAIN m.dataArray |-> sample[i]]],
        Call("getByteFrequencyData", "dataArray", << >>))

\* for (var i = 0; i < bufferLength; i++) { ... }
RECURSIVE DrawBars(_, _, _, _)
DrawBars(i, x, barWidth, m) ==
    IF LoopCond(i, m)
    THEN LET s == m.dataArray[i + 1]
             barHeight == BarHeight(s)
             m1 == SetFillStyle(m, BarColor(s))
             m2 == FillRect(m1, <<x, BarTop(barHeight), barWidth, barHeight>>)
         IN DrawBars(i + 1, NextX(x, barWidth), barWidth, m2)
    ELSE m

\* The background repaint and the bars (lines 97-138).
Paint(m) ==
    LET m1 == SetFillStyle(m, BACKGROUND_COLOR)
        m2 == FillRect(m1, <<0, 0, CANVAS_WIDTH, CANVAS_HEIGHT * YScale>>)
    IN DrawBars(0, 0, BarWidth(m2), m2)

\* function draw ()
draw_ScheduleLast(m, sample) ==
    LET m0 == [m EXCEPT !.frame = << >>, !.framesDrawn = @ + 1]
    IN ScheduleNext(Paint(Populate(m0, sample)))

draw(m, sample) ==
    LET m0 == [m EXCEPT !.frame = << >>, !.framesDrawn = @ + 1]
    IN Paint(Populate(ScheduleNext(m0), sample))

(* ------------------------ getUserMediaSuccess -------------------------- *)

\* function getUserMediaSuccess (audioStream); sample is what the analyser
\* delivers to the first draw().
getUserMediaSuccess(m, sample) ==
    LET m0 == [m EXCEPT !.setupRuns = @ + 1]
        m1 == Log(m0, Call("new AudioContext", "", << >>))
        m2 == Log(m1, Call("createAnalyser", "", << >>))
        m3 == Log(m2, Call("fftSize", ToString(fftSize), << >>))
        m4 == Log(m3, Call("createMediaStreamSource", "audioStream", << >>))
        m5 == Log(m4, Call("connect", "analyser", << >>))
        m6 == [m5 EXCEPT !.bufferLength = frequencyBinCount]
        m7 == Log([m6 EXCEPT !.dataArray = [i \in 1..m6.bufferLength |-> 0],
                             !.allocs = @ + 1],
                  Call("new Uint8Array", ToString(m6.bufferLength), << >>))
        m8 == ClearRect([m7 EXCEPT !.clearRects = @ + 1],
                        <<0, 0, CANVAS_WIDTH, CANVAS_HEIGHT * YScale>>)
    IN draw(m8, sample)

(* ------------------------------ actions -------------------------------- *)

\* navigator.getUserMedia || navigator.webkitGetUserMedia || navigator.mozGetUserMedia
ResolveGetUserMedia(nav) ==
    IF "getUserMedia" \in nav THEN "getUserMedia"
    ELSE IF "webkitGetUserMedia" \in nav THEN "webkitGetUserMedia"
    ELSE IF "mozGetUserMedia" \in nav THEN "mozGetUserMedia"
    ELSE Undefined

Fresh(m) == [m EXCEPT !.calls = << >>]

\* Lines 35-47 with the error display lost from the else branch.
Startup_NoDisplay ==
    /\ phase = "loaded"
    /\ LET gum == ResolveGetUserMedia(navigator)
       IN /\ navigator' = IF gum # Undefined THEN navigator \cup {"getUserMedia"}
                          ELSE navigator
          /\ IF gum # Undefined
             THEN /\ Commit([Fresh(M) EXCEPT !.gumRequests = @ + 1])
                  /\ phase' = "requested"
             ELSE /\ Commit(Fresh(M))
                  /\ phase' = "unsupported"
    /\ UNCHANGED <<clientWidth, bodyBackground, errName, repaintSignals>>

\* Lines 35-47 with the error display outside the else branch.
Startup_FallThrough ==
    /\ phase = "loaded"
    /\ LET gum == ResolveGetUserMedia(navigator)
       IN /\ navigator' = IF gum # Undefined THEN navigator \cup {"getUserMedia"}
                          ELSE navigator
          /\ IF gum # Undefined
             THEN /\ Commit(displayError([Fresh(M) EXCEPT !.gumRequests = @ + 1],
                                         <<UNSUPPORTED_MSG>>))
                  /\ phase' = "requested"
             ELSE /\ Commit(displayError(Fresh(M), <<UNSUPPORTED_MSG>>))
                  /\ phase' = "unsupported"
    /\ UNCHANGED <<clientWidth, bodyBackground, errName, repaintSignals>>

\* Lines 35-47: resolve the capability, then request the stream or report.
Startup ==
    /\ phase = "loaded"
    /\ LET gum == ResolveGetUserMedia(navigator)
       IN /\ navigator' = IF gum # Undefined THEN navigator \cup {"getUserMedia"}
                          ELSE navigator
          /\ IF gum # Undefined
             THEN /\ Commit([Fresh(M) EXCEPT !.gumRequests = @ + 1])
                  /\ phase' = "requested"
             ELSE /\ Commit(displayError(Fresh(M), <<UNSUPPORTED_MSG>>))
                  /\ phase' = "unsupported"
    /\ UNCHANGED <<clientWidth, bodyBackground, errName, repaintSignals>>

\* The provider resolves the pending request with a stream.
GetUserMediaSuccess ==
    /\ phase = "requested"
    /\ \E sample \in Samples : Commit(getUserMediaSuccess(Fresh(M), sample))
    /\ phase' = "running"
    /\ UNCHANGED <<navigator, clientWidth, bodyBackground, errName, repaintSignals>>

\* The provider resolves the pending request with an error.
GetUserMediaError ==
    /\ phase = "requested"
    /\ \E name \in ErrNames :
          /\ errName' = name
          /\ Commit(getUserMediaError(Fresh(M), [name |-> name]))
    /\ phase' = "failed"
    /\ UNCHANGED <<navigator, clientWidth, bodyBackground, repaintSignals>>

\* The callbacks registered when a repaint signal arrives all run in it;
\* what they register runs in a later one.
RECURSIVE RunCallbacks(_, _, _)
RunCallbacks(n, m, sample) ==
    IF n = 0 THEN m ELSE RunCallbacks(n - 1, draw(m, sample), sample)

\* A display refresh with a frame callback registered.
Repaint ==
    /\ rafPending > 0
    /\ repaintSignals < MaxFrames
    /\ \E sample \in Samples :
          Commit(RunCallbacks(rafPending, [Fresh(M) EXCEPT !.rafPending = 0], sample))
    /\ repaintSignals' = repaintSignals + 1
    /\ UNCHANGED <<phase, navigator, clientWidth, bodyBackground, errName>>

Init ==
    /\ phase = "loaded"
    /\ navigator \in SUBSET (GumNames)
    /\ clientWidth \in ClientWidths
    /\ bodyBackground = BACKGROUND_COLOR
    /\ errName = Undefined
    /\ repaintSignals = 0
    /\ ctx = [fillStyle |-> "#000000", font |-> "10px sans-serif"]
    /\ canvas = << >>
    /\ calls = << >>
    /\ frame = << >>
    /\ bufferLength = 0
    /\ dataArray = << >>
    /\ allocs = 0
    /\ rafPending = 0
    /\ rafCalls = 0
    /\ framesDrawn = 0
    /\ gumRequests = 0
    /\ displayed = << >>
    /\ setupRuns = 0
    /\ clearRects = 0

Next ==
    \/ Startup
    \/ GetUserMediaSuccess
    \/ GetUserMediaError
    \/ Repaint

Spec == Init /\ [][Next]_vars

\* A Repaint step as the scheduler sees it.  Repaint is the only action that
\* changes repaintSignals and its effect is defined in every state, so under
\* Spec the steps and the enabling condition of ScheduledRepaint are those of
\* Repaint.
ScheduledRepaint ==
    /\ rafPending > 0
    /\ repaintSignals < MaxFrames
    /\ repaintSignals' = repaintSignals + 1

\* The frame scheduler runs a registered callback at the next repaint.
FairSpec == Spec /\ WF_repaintSignals(ScheduledRepaint)

(* --------------------- reading a frame's calls ------------------------- *)

IsOp(c, op) == c.op = op
FillRectCalls == SelectSeq(frame, LAMBDA c : IsOp(c, "fillRect"))
FillStyleCalls == SelectSeq(frame, LAMBDA c : IsOp(c, "fillStyle"))

\* The calls that draw the bars: every fillRect and fillStyle of the frame
\* after the background repaint's.
BarRectCalls == Tail(FillRectCalls)
BarStyleCalls == Tail(FillStyleCalls)

\* The index of the first call of the handler with the given name (0 if none).
FirstIndex(log, op) ==
    IF \E k \in 1..Len(log) : log[k].op = op
    THEN CHOOSE k \in 1..Len(log) :
            /\ log[k].op = op
            /\ \A j \in 1..(k - 1) : log[j].op # op
    ELSE 0

ErrorShown == displayed # << >>
LoopStarted == framesDrawn > 0

(* ------------------------------ claims --------------------------------- *)

\* C1: when the capability exists and the acquisition request fails with an
\* error named N, displayError receives N as its text and the text given to
\* fillText carries N (alone or after the "Error: " prefix).
C1_ErrorNameDisplayed ==
    phase = "failed" =>
        /\ Len(displayed) = 1
        /\ displayed[1] \in {errName, "Error: " \o errName}
        /\ \E k \in 1..Len(calls) :
              /\ calls[k].op = "fillText"
              /\ calls[k].value \in {errName, "Error: " \o errName}

\* C2: when none of the capability names is present at startup, displayError
\* is invoked exactly once, with the fixed unsupported message, no acquisition
\* request is issued and requestAnimationFrame is never called.
C2_UnsupportedPath ==
    navigator = {} =>
        /\ gumRequests = 0
        /\ rafCalls = 0
        /\ rafPending = 0
        /\ framesDrawn = 0
        /\ phase \in {"loaded", "unsupported"}
        /\ (phase = "loaded" => displayed = << >>)
        /\ (phase = "unsupported" => displayed = <<UNSUPPORTED_MSG>>)

C2_Witness ==
    /\ navigator = {}
    /\ phase = "unsupported"
    /\ displayed = <<UNSUPPORTED_MSG>>

\* C3: an error display is terminal: in every state in which displayError has
\* been invoked, no analysis setup has run, no frame has been drawn and no
\* frame callback has been or is scheduled (the counters never decrease, so
\* this covers the states before and after the error).
C3_ErrorTerminal ==
    ErrorShown =>
        /\ setupRuns = 0
        /\ framesDrawn = 0
        /\ rafCalls = 0
        /\ rafPending = 0
        /\ allocs = 0
        /\ phase \in {"failed", "unsupported"}
        /\ Len(displayed) = 1

C3_Witness ==
    /\ phase = "failed"
    /\ gumRequests = 1
    /\ ErrorShown

\* C4 as stated: the fillRect calls of a frame number bufferLength (128).
C4_FillRectCallsEqualBufferLength ==
    LoopStarted => Len(FillRectCalls) = bufferLength

\* C4: every frame makes one fillRect call per bin, 128 of them, after one
\* fillRect call that repaints the whole canvas in the background colour:
\* 129 fillRect calls in all.
C4_BarsEqualBufferLength ==
    LoopStarted =>
        /\ bufferLength = 128
        /\ Len(BarRectCalls) = bufferLength
        /\ Len(FillRectCalls) = bufferLength + 1
        /\ FillRectCalls[1].args = <<0, 0, CANVAS_WIDTH, CANVAS_HEIGHT * YScale>>
        /\ FillStyleCalls[1].value = BACKGROUND_COLOR

C4_Witness ==
    /\ framesDrawn >= 2
    /\ Len(FillRectCalls) = 129
    /\ dataArray = Sweep

\* C5: in every frame the bars' horizontal positions start at 0 and advance
\* by barWidth + 2: strictly increasing, no two bars overlapping, and
\* determined by the canvas width alone (not by the samples or by earlier
\* frames).
C5_BarPositions ==
    LoopStarted =>
        LET bars == BarRectCalls
            barWidth == bars[1].args[3]
        IN /\ bars[1].args[1] = 0
           /\ barWidth * 12 * 10 * 128 = clientWidth * XScale * 10 * 14
           /\ \A i \in 1..Len(bars) :
                 /\ bars[i].args[3] = barWidth
                 /\ bars[i].args[1] = (i - 1) * (barWidth + 2 * XScale)
           /\ \A i \in 1..(Len(bars) - 1) :
                 /\ bars[i + 1].args[1] = bars[i].args[1] + barWidth + 2 * XScale
                 /\ bars[i].args[1] < bars[i + 1].args[1]
                 /\ bars[i].args[1] + barWidth <= bars[i + 1].args[1]

C5_Witness ==
    /\ framesDrawn >= 2
    /\ clientWidth > 0
    /\ Len(BarRectCalls) = 128
    /\ BarRectCalls[128].args[1] > BarRectCalls[127].args[1] + BarRectCalls[127].args[3]

\* C6: displayError first clears the whole canvas and then renders the
\* error text, once, with the red fill colour set; afterwards nothing but
\* that text is on the canvas.
C6_ClearThenText ==
    ErrorShown =>
        LET text == displayed[Len(displayed)]
        IN /\ Len(calls) = 4
           /\ calls[1].op = "clearRect"
           /\ Covers(calls[1].args)
           /\ calls[2] = Call("fillStyle", ERROR_COLOR, << >>)
           /\ calls[4].op = "fillText"
           /\ calls[4].value = text
           /\ Cardinality({k \in 1..Len(calls) : calls[k].op = "fillText"}) = 1
           /\ ctx.fillStyle = ERROR_COLOR
           /\ \A k \in 1..Len(canvas) :
                 /\ canvas[k].kind = "text"
                 /\ canvas[k].text = text
                 /\ canvas[k].style = ERROR_COLOR
           /\ Len(canvas) <= 1
           /\ (clientWidth > 0 => Len(canvas) = 1)

C6_Witness ==
    /\ ErrorShown
    /\ clientWidth > 0
    /\ Len(canvas) = 1
    /\ canvas[1].kind = "text"

\* C7: the bar of a bin with sample s has height 1.5*s and requested fill
\* colour rgb(60, 60, s+60), unclamped: s = 0 requests the background colour,
\* s = 255 gives height 382.5 and a requested blue channel of 315.
C7_BarHeightAndColour ==
    LoopStarted =>
        \A i \in 1..Len(dataArray) :
            LET s == dataArray[i]
                style == BarStyleCalls[i].value
                height == BarRectCalls[i].args[4]
            IN /\ s \in 0..255
               /\ 2 * height = 3 * s * YScale
               /\ style = "rgb(60, 60, " \o ToString(s + 60) \o ")"
               /\ (s = 0 => style = BACKGROUND_COLOR /\ height = 0)
               /\ (s = 255 => style = "rgb(60, 60, 315)" /\ 2 * height = 765 * YScale)

C7_Witness ==
    /\ LoopStarted
    /\ dataArray[1] = 0
    /\ dataArray[128] = 255
    /\ BarStyleCalls[1].value = "rgb(60, 60, 60)"
    /\ BarStyleCalls[128].value = "rgb(60, 60, 315)"

\* C8: at most one frame callback is registered at any moment, and every
\* repaint signal has run draw exactly once: the frames drawn are the
\* repaint signals plus the one direct call of the success callback.
C8_OneFramePerRepaint ==
    /\ rafPending <= 1
    /\ (setupRuns = 0 => framesDrawn = 0 /\ repaintSignals = 0 /\ rafPending = 0)
    /\ (setupRuns > 0 => framesDrawn = repaintSignals + 1 /\ rafPending = 1)
    /\ rafCalls = framesDrawn

C8_Witness ==
    /\ repaintSignals = 2
    /\ framesDrawn = 3
    /\ rafPending = 1

\* C9: draw registers its next invocation before it populates the buffer or
\* draws, so whatever prefix of the frame has run, the next frame is
\* registered; once the loop has started a callback is always registered,
\* and under a fair scheduler every bounded number of frames is reached.
C9_ScheduleFirst ==
    /\ [](LoopStarted =>
            /\ frame[1].op = "requestAnimationFrame"
            /\ \A k \in 1..Len(frame) :
                  frame[k].op \in {"getByteFrequencyData", "fillStyle", "fillRect"}
                      => k > FirstIndex(frame, "requestAnimationFrame")
            /\ FirstIndex(frame, "getByteFrequencyData") = 2
            /\ rafPending >= 1)
    /\ (LoopStarted ~> (framesDrawn = MaxFrames + 1))

C9_Witness ==
    /\ framesDrawn = MaxFrames + 1
    /\ rafPending = 1
    /\ frame[1].op = "requestAnimationFrame"

\* C10: analysis setup runs only on a successful acquisition and once; it
\* clears the whole canvas once (the cleared canvas shows the page
\* background, which is the background colour) before the first draw, and
\* the one 128-byte buffer it allocates is the buffer every frame populates.
C10_SetupOnce ==
    /\ setupRuns <= 1
    /\ (setupRuns = 1 <=> phase = "running")
    /\ (phase # "running" =>
            allocs = 0 /\ clearRects = 0 /\ dataArray = << >> /\ framesDrawn = 0)
    /\ (phase = "running" =>
            /\ allocs = 1
            /\ clearRects = 1
            /\ bufferLength = 128
            /\ Len(dataArray) = 128
            /\ bodyBackground = BACKGROUND_COLOR
            /\ \A k \in 1..Len(frame) : frame[k].op \notin {"new Uint8Array", "clearRect"}
            /\ (framesDrawn = 1 =>
                   /\ FirstIndex(calls, "clearRect") > FirstIndex(calls, "new Uint8Array")
                   /\ FirstIndex(calls, "new Uint8Array") > 0
                   /\ FirstIndex(calls, "clearRect") < FirstIndex(calls, "requestAnimationFrame")
                   /\ Covers(calls[FirstIndex(calls, "clearRect")].args)
                   /\ Cardinality({k \in 1..Len(calls) : calls[k].op = "clearRect"}) = 1))

C10_Witness ==
    /\ phase = "running"
    /\ framesDrawn = 3
    /\ allocs = 1
    /\ dataArray = Loudest

====
